---- MODULE Spec2Model ----
(***************************************************************************)
(* Model of the native audio player (backend/player/native/player.go):     *)
(* the playback state machine, its transport calls and the monitor         *)
(* goroutines it spawns.  Every step is one critical section of the code   *)
(* (one hold of p.mu or p.playbackMu) or one call that touches no shared   *)
(* field; goroutines interleave between steps.                             *)
(*                                                                         *)
(* Time is counted in ticks of 100 ms (the monitor's ticker interval and   *)
(* the seek debounce delay).  Positions given in seconds are converted     *)
(* with TicksPerSecond; status.TimePos is reported in ticks.               *)
(*                                                                         *)
(* The byte source for remote files (httpseeker.go, HTTPSeeker) is         *)
(* modelled next to the player, with the server's answers as inputs; the   *)
(* resource it reads has ResLen bytes and a byte is known by its offset.   *)
(*                                                                         *)
(* The progressive byte source (streamseeker.go, StreamSeeker) is modelled *)
(* with its background buffering goroutine and concurrent callers of Read  *)
(* and Seek; a step is one hold of ss.mu.  The origin's bytes are known by *)
(* their offsets as well.                                                  *)
(*                                                                         *)
(* The decoder (httpseeker.go, FFmpegDecoder) is modelled in two parts:    *)
(* Read and Seek over a demuxer and a codec that follow libavcodec's       *)
(* send/receive protocol, with a decoded frame known by the index of its   *)
(* packet; and the conversion of one float frame to 16-bit PCM, with the   *)
(* samples as fractions of FloatDen, for which float32 arithmetic is exact.*)
(***************************************************************************)
EXTENDS Integers, Sequences, FiniteSets, TLC

\* ---- bounds of the model ------------------------------------------------
MaxMonitors == 2      \* monitor goroutines alive at the same time
MaxOps       == 4     \* calls issued by the application
MaxOpsPlay   == 5     \* calls issued by the application that plays one track, queues, pauses and stops
MaxTime      == 1     \* wall-clock ticks
MaxOpsPause  == 6     \* calls issued by the application that plays one track and pauses and resumes it
MaxTimePause == 2     \* wall-clock ticks for that application
MaxOpsSeek   == 4     \* calls issued by the application that plays one track and seeks in it
ResLen       == 3     \* bytes of the remote resource
MaxRead      == 2     \* len(p) of a Read
MaxBuf       == 3     \* bytes the origin of a progressive source delivers at most
NumCallers   == 2     \* goroutines calling Read and Seek on a progressive source
MaxSamples   == 2     \* nbSamples of a decoded frame
MaxChannels  == 2     \* channels of a decoded frame
MaxPackets   == 3     \* packets of the file the decoder reads
MaxDelay     == 1     \* frames the codec holds back until it is flushed
FrameBytes   == 2     \* bytes of PCM a decoded frame converts to

\* ---- program constants --------------------------------------------------
TicksPerSecond == 10  \* time.Second in ticks of 100 ms
Debounce       == 1   \* time.Sleep(100 * time.Millisecond) in SeekSeconds
Int16Scale     == 32767 \* the factor 32767.0 of the float conversion

\* ---- inputs ---------------------------------------------------------------
PlayURLs   == {"a"}            \* locators given to PlayFile
NextURLs   == {"b"}            \* locators given to SetNextFile
NoURL      == ""
StartTimes == {0, 1}          \* seconds
SeekSecs   == {1}             \* seconds
MetaOf(url) == IF url = "a" THEN 3 ELSE IF url = "b" THEN 2 ELSE 0
NoMeta     == 0               \* mediaprovider.MediaItemMetadata{}

Stopped == "Stopped"
Playing == "Playing"
Paused  == "Paused"

App      == 0                 \* the application goroutine issuing transport calls
Monitors == 1..MaxMonitors    \* slots for monitorPlayback goroutines
Procs    == {App} \cup Monitors

\* the goroutines that take the player's locks: two callers of the transport
\* calls, the monitor, a reader of the status, and the goroutine SeekSeconds starts
Tasks == {"transport", "transport2", "monitor", "render", "seekend"}

VARIABLES
  initialized, ctxCancelled, status, seeking, curPlaylistPos, lenPlaylist,
  prePausedState, otoContext, otoPlayer, decoder,
  currentURL, nextURL, currentMetadata, nextMetadata,
  stopRequested, pauseRequested, seekTarget, seekRequested,
  startTime, trackStartTime, pausedAt, pausedDuration,
  now,        \* wall clock
  pc,         \* position of every goroutine
  loc,        \* local variables of every goroutine
  timers,     \* deadlines of the debounce goroutines started by SeekSeconds
  ops,        \* transport calls the application may still issue
  fired,      \* callbacks invoked by the last step
  ret,        \* transport call that returned in the last step, with its error
  \* history variables, read by no action
  interfered, \* a monitor took a step while the application's Stop call was in progress
  advance,    \* the automatic advance that is due since the sink ran out of the current track,
              \* or that failed to start the next track
  pauseCycle, \* when the sink was paused, and the accumulated paused duration at that time
  \* the range-request byte source
  hs,         \* the HTTPSeeker
  conns,      \* response bodies that are open
  hsRet,      \* the last call on the HTTPSeeker and what it returned
  \* the progressive byte source
  ss,         \* the StreamSeeker: bytes buffered, cursor, done, err
  wpc,        \* position of bufferInBackground
  cpc,        \* position of every caller
  cloc,       \* local variables of every caller's Read
  ssRet,      \* the call on the StreamSeeker that returned in the last step
  \* the decoder
  cv,         \* the frame converted last: format, shape, float samples and PCM output
  dec,        \* the FFmpegDecoder: eof, buffer, bufferPos
  codec,      \* the codec context: frames decoded and not yet received, draining
  demux,      \* the format context: the file's packets and the next one to read
  decRet,     \* the last call on the decoder and what it returned
  delivered,  \* history: the bytes Read has returned since the decoder was opened or sought
  \* the player's two locks
  lprog,      \* the function every task is executing, "none" between calls
  lat,        \* the lock operation of that function the task executes next
  muW,        \* the task that holds mu for writing
  muPending,  \* the task that has called mu.Lock and waits for the readers to leave
  muR,        \* the tasks that hold mu for reading
  pbOwner     \* the task that holds playbackMu

queueVars == <<currentURL, nextURL, currentMetadata, nextMetadata, curPlaylistPos, lenPlaylist>>
clockVars == <<startTime, trackStartTime, pausedAt, pausedDuration>>
flagVars  == <<stopRequested, pauseRequested, seekTarget, seekRequested, seeking>>
audioVars == <<otoContext, otoPlayer, decoder>>
lifeVars  == <<initialized, ctxCancelled>>
playerVars == <<lifeVars, status, prePausedState, queueVars, clockVars, flagVars, audioVars>>
histVars == <<interfered, advance, pauseCycle>>
httpVars == <<hs, conns, hsRet>>
streamVars == <<ss, wpc, cpc, cloc, ssRet>>
decVars == <<cv, dec, codec, demux, decRet, delivered>>
besideConvert == <<dec, codec, demux, decRet, delivered>>
sourceVars == <<httpVars, streamVars, decVars, lprog, lat, muW, muPending, muR, pbOwner>>
playerSide == <<playerVars, now, pc, loc, timers, ops, fired, ret, histVars>>
besideHTTP == <<playerSide, streamVars, decVars, lprog, lat, muW, muPending, muR, pbOwner>>
besideStream == <<playerSide, httpVars, decVars, lprog, lat, muW, muPending, muR, pbOwner>>
besideDecoder == <<playerSide, httpVars, streamVars, lprog, lat, muW, muPending, muR, pbOwner>>
vars == <<playerSide, sourceVars>>

NoRet == [op |-> "none", err |-> "none"]
NoPre == [state |-> Stopped, url |-> NoURL, meta |-> NoMeta, st |-> 0, len |-> 0, pos |-> 0]
NoLoc == [url |-> NoURL, st |-> 0, pauseReq |-> FALSE, seekTarget |-> 0,
          state |-> Stopped, nextURL |-> NoURL, nextMeta |-> NoMeta, pre |-> NoPre,
          err |-> "nil"]

NoAdvance == [url |-> NoURL, changes |-> 0, failed |-> FALSE]
NoCycle   == [at |-> -1, base |-> 0]

\* no HTTPSeeker yet, and no call on it
NoSeeker == [made |-> FALSE, currentPos |-> 0, contentLength |-> 0, reader |-> "nil", bodyPos |-> 0]
NoHsRet  == [op |-> "none", err |-> "none", pos |-> 0, n |-> 0, first |-> 0, target |-> 0, head |-> "none"]

Callers == 1..NumCallers

\* NewStreamSeeker: nothing buffered, cursor 0, buffering in progress
NewSeeker == [len |-> 0, pos |-> 0, done |-> FALSE, err |-> "nil"]
NoCLoc    == [k |-> 0, available |-> 0, isDone |-> FALSE, bufErr |-> "nil", waited |-> FALSE]
NoSsRet   == [op |-> "none", err |-> "none", n |-> 0, first |-> 0, beyond |-> FALSE,
              pos |-> 0, target |-> 0, whence |-> 0, waited |-> FALSE]

\* New(): the zero Player (vol and audioBufferSize are not modelled); the
\* application is about to issue at most n calls
NoConv == [fmt |-> "none", n |-> 0, c |-> 0, input |-> <<>>, output |-> <<>>, nanOut |-> 0]

NoDecoder == [made |-> FALSE, eof |-> FALSE, buffer |-> <<>>, bufferPos |-> 0]
NoCodec   == [pending |-> <<>>, delay |-> 0, draining |-> FALSE]
NoDemux   == [file |-> <<>>, next |-> 1, start |-> 1]
NoDecRet  == [op |-> "none", err |-> "none", out |-> <<>>]

InitWith(n) ==
  /\ initialized = FALSE
  /\ ctxCancelled = FALSE
  /\ status = [State |-> Stopped, TimePos |-> 0, Duration |-> 0]
  /\ seeking = FALSE
  /\ curPlaylistPos = 0
  /\ lenPlaylist = 0
  /\ prePausedState = Stopped
  /\ otoContext = "nil"
  /\ otoPlayer = "nil"
  /\ decoder = "nil"
  /\ currentURL = NoURL
  /\ nextURL = NoURL
  /\ currentMetadata = NoMeta
  /\ nextMetadata = NoMeta
  /\ stopRequested = FALSE
  /\ pauseRequested = FALSE
  /\ seekTarget = 0
  /\ seekRequested = FALSE
  /\ startTime = 0
  /\ trackStartTime = 0
  /\ pausedAt = 0
  /\ pausedDuration = 0
  /\ now = 0
  /\ pc = [p \in Procs |-> IF p = App THEN "idle" ELSE "dead"]
  /\ loc = [p \in Procs |-> NoLoc]
  /\ timers = <<>>
  /\ ops = n
  /\ fired = {}
  /\ ret = NoRet
  /\ interfered = FALSE
  /\ advance = NoAdvance
  /\ pauseCycle = NoCycle
  /\ hs = NoSeeker
  /\ conns = 0
  /\ hsRet = NoHsRet
  /\ ss = NewSeeker
  /\ wpc = "run"
  /\ cpc = [c \in Callers |-> "idle"]
  /\ cloc = [c \in Callers |-> NoCLoc]
  /\ ssRet = NoSsRet
  /\ cv = NoConv
  /\ dec = NoDecoder
  /\ codec = NoCodec
  /\ demux = NoDemux
  /\ decRet = NoDecRet
  /\ delivered = <<>>
  /\ lprog = [t \in Tasks |-> "none"]
  /\ lat = [t \in Tasks |-> 1]
  /\ muW = "none"
  /\ muPending = "none"
  /\ muR = {}
  /\ pbOwner = "none"

Init == InitWith(MaxOps)

\* ---- helpers ----------------------------------------------------------------

\* time.Since(p.trackStartTime)
Since(t) == now - t

\* the callback setState invokes for a change from oldState to s
StateCallback(oldState, s) ==
  IF s = Playing /\ oldState # Playing THEN {"OnPlaying"}
  ELSE IF s = Paused /\ oldState # Paused THEN {"OnPaused"}
  ELSE IF s = Stopped /\ oldState # Stopped THEN {"OnStopped"}
  ELSE {}

\* otoPlayer.IsPlaying()
IsPlaying(op) == op = "playing"

\* otoPlayer.Play(): a player whose source is exhausted does not restart
SinkPlay(op) == IF op \in {"idle", "paused"} THEN "playing" ELSE op

\* otoPlayer.Pause()
SinkPause(op) == IF op \in {"idle", "playing"} THEN "paused" ELSE op

\* GetStatus(): a snapshot of p.status, with position and duration filled in
\* only while Playing with a decoder
GetStatus ==
  IF status.State = Playing /\ decoder # "nil"
  THEN [status EXCEPT !.TimePos = startTime * TicksPerSecond + (Since(trackStartTime) - pausedDuration),
                      !.Duration = currentMetadata * TicksPerSecond]
  ELSE status

\* IsSeeking()
IsSeeking == seeking /\ status.State = Playing

AtTick(m) == pc[m] \in {"dead", "wait"}

\* what the application could observe of the player when it issued the call
\* in progress (kept in loc[App].pre, read by no action)
Before == [state |-> status.State, url |-> currentURL, meta |-> currentMetadata,
           st |-> startTime, len |-> lenPlaylist, pos |-> curPlaylistPos]

\* the application issues a transport call
Begin(op) == /\ pc[App] = "idle"
             /\ ops > 0
             /\ ops' = ops - 1
             /\ interfered' = (op = "Stop" /\ initialized /\ \E m \in Monitors : ~AtTick(m))
             /\ advance' = NoAdvance
             /\ UNCHANGED pauseCycle
             /\ UNCHANGED sourceVars

\* goroutine p takes a step that is not the start of a transport call
Step(p) == /\ interfered' = IF p = App THEN interfered
                            ELSE (interfered \/ pc[App] \in {"st_close", "st_reset", "st_state"})
           /\ UNCHANGED sourceVars

\* ... and leaves the other history variables alone
Plain(p) == Step(p) /\ UNCHANGED <<advance, pauseCycle>>

Goto(p, l) == pc' = [pc EXCEPT ![p] = l]

\* a transport call returns to the application
Return(op, err) == /\ pc' = [pc EXCEPT ![App] = "idle"]
                   /\ loc' = [loc EXCEPT ![App] = NoLoc]
                   /\ ret' = [op |-> op, err |-> err]

\* go p.monitorPlayback(): the new goroutine takes the lowest free slot; when
\* MaxMonitors monitors are alive already, the new one is never scheduled
Spawn(f) ==
  LET free == {m \in Monitors : f[m] = "dead"}
  IN IF free = {} THEN f
     ELSE [f EXCEPT ![CHOOSE m \in free : \A k \in free : m <= k] = "wait"]

\* ---- Init / Destroy ---------------------------------------------------------

CallInit ==
  /\ Begin("Init")
  /\ IF initialized
     THEN UNCHANGED lifeVars
     ELSE /\ initialized' = TRUE
          /\ ctxCancelled' = FALSE
  /\ Return("Init", "nil")
  /\ fired' = {}
  /\ UNCHANGED <<status, prePausedState, queueVars, clockVars, flagVars, audioVars, now, timers>>

\* stopPlayback() without lines 439-442: the decoder stays referenced
StopPlaybackKeepsDecoder ==
  /\ otoPlayer' = "nil"
  /\ UNCHANGED <<decoder, otoContext>>

\* stopPlayback(): closes and drops the sink player and the decoder
StopPlaybackEffect ==
  /\ otoPlayer' = "nil"
  /\ decoder' = "nil"
  /\ UNCHANGED otoContext

CallDestroy ==
  /\ Begin("Destroy")
  /\ fired' = {}
  /\ IF ~initialized
     THEN /\ Return("Destroy", "nil")
          /\ UNCHANGED audioVars
     ELSE /\ StopPlaybackEffect
          /\ Goto(App, "de_cancel")
          /\ UNCHANGED <<loc>>
          /\ ret' = NoRet
  /\ UNCHANGED <<lifeVars, status, prePausedState, queueVars, clockVars, flagVars, now, timers>>

DestroyCancel ==
  /\ pc[App] = "de_cancel"
  /\ ctxCancelled' = TRUE
  /\ otoContext' = IF otoContext = "nil" THEN "nil" ELSE "suspended"
  /\ initialized' = FALSE
  /\ Return("Destroy", "nil")
  /\ fired' = {}
  /\ UNCHANGED <<status, prePausedState, queueVars, clockVars, flagVars, otoPlayer, decoder, now, timers, ops>>
  /\ Plain(App)

\* a step that invokes no callback and returns from no transport call
Quiet == fired' = {} /\ ret' = NoRet

\* a goroutine other than the application ends
Exit(p) == /\ pc' = [pc EXCEPT ![p] = "dead"]
           /\ loc' = [loc EXCEPT ![p] = NoLoc]

\* ---- Stop (called by the application and by the monitor) -------------------

\* Stop, lines 153-159: the initialized check and stopRequested = true
StopRequest(p) ==
  IF ~initialized
  THEN /\ IF p = App THEN Return("Stop", "ErrUninitialized") ELSE Exit(p) /\ ret' = NoRet
       /\ UNCHANGED stopRequested
  ELSE /\ stopRequested' = TRUE
       /\ Goto(p, "st_close")
       /\ loc' = IF p = App THEN [loc EXCEPT ![p].pre.state = status.State] ELSE loc
       /\ ret' = NoRet

CallStop ==
  /\ Begin("Stop")
  /\ StopRequest(App)
  /\ fired' = {}
  /\ UNCHANGED <<lifeVars, status, prePausedState, queueVars, clockVars, pauseRequested,
                 seekTarget, seekRequested, seeking, audioVars, now, timers>>

MonStopRequest(m) ==
  /\ m \in Monitors /\ pc[m] = "st_req"
  /\ StopRequest(m)
  /\ fired' = {}
  /\ UNCHANGED <<lifeVars, status, prePausedState, queueVars, clockVars, pauseRequested,
                 seekTarget, seekRequested, seeking, audioVars, now, timers, ops>>
  /\ Plain(m)

\* Stop, line 161: stopPlayback()
StopClose(p) ==
  /\ pc[p] = "st_close"
  /\ StopPlaybackEffect
  /\ Goto(p, "st_reset")
  /\ Quiet
  /\ UNCHANGED <<lifeVars, status, prePausedState, queueVars, clockVars, flagVars, now, loc, timers, ops>>
  /\ Plain(p)

\* Stop, lines 163-167
StopReset(p) ==
  /\ pc[p] = "st_reset"
  /\ lenPlaylist' = 0
  /\ curPlaylistPos' = 0
  /\ stopRequested' = FALSE
  /\ Goto(p, "st_state")
  /\ Quiet
  /\ UNCHANGED <<lifeVars, status, prePausedState, currentURL, nextURL, currentMetadata, nextMetadata,
                 clockVars, pauseRequested, seekTarget, seekRequested, seeking, audioVars,
                 now, loc, timers, ops>>
  /\ Plain(p)

\* Stop, lines 169-170: setState(Stopped) and return
StopState(p) ==
  /\ pc[p] = "st_state"
  /\ status' = [status EXCEPT !.State = Stopped]
  /\ fired' = StateCallback(status.State, Stopped)
  /\ IF p = App THEN Return("Stop", "nil") ELSE Exit(p) /\ ret' = NoRet
  /\ UNCHANGED <<lifeVars, prePausedState, queueVars, clockVars, flagVars, audioVars, now, timers, ops>>
  /\ Plain(p)

\* ---- PlayFile and startPlayback --------------------------------------------

\* PlayFile, lines 108-118
CallPlayFile(url, st) ==
  /\ Begin("PlayFile")
  /\ fired' = {}
  /\ IF ~initialized
     THEN /\ Return("PlayFile", "ErrUninitialized")
          /\ UNCHANGED <<currentURL, currentMetadata, startTime, lenPlaylist, curPlaylistPos>>
     ELSE /\ currentURL' = url
          /\ currentMetadata' = MetaOf(url)
          /\ startTime' = st
          /\ lenPlaylist' = 1
          /\ curPlaylistPos' = 0
          /\ Goto(App, "sp_stop")
          /\ loc' = [loc EXCEPT ![App].url = url, ![App].st = st, ![App].pre = Before]
          /\ ret' = NoRet
  /\ UNCHANGED <<lifeVars, status, prePausedState, nextURL, nextMetadata, trackStartTime, pausedAt,
                 pausedDuration, flagVars, audioVars, now, timers>>

\* startPlayback, line 339: stopPlayback()
StartStop(p) ==
  /\ pc[p] = "sp_stop"
  /\ StopPlaybackEffect
  /\ Goto(p, "sp_open")
  /\ Quiet
  /\ UNCHANGED <<lifeVars, status, prePausedState, queueVars, clockVars, flagVars, now, loc, timers, ops>>
  /\ Plain(p)

\* startPlayback returns an error: PlayFile returns it (lines 120-122), the
\* monitor logs it and calls Stop (lines 524-527)
StartFailed(p) ==
  IF p = App THEN Return("PlayFile", "error")
  ELSE Goto(p, "st_req") /\ ret' = NoRet /\ UNCHANGED loc

\* the outcomes of opening the byte source, the decoder and the sink
OpenOutcomes == {"ok", "open", "decoder", "sink"}

\* startPlayback, lines 345-410: open the byte source (349-364) and the decoder
\* (369-373); then under playbackMu install the decoder, restart the clock,
\* create the oto context if there is none (386-403) and the oto player (406);
\* then start a monitor goroutine (410)
StartOpen(p, outcome) ==
  /\ pc[p] = "sp_open"
  /\ outcome = "sink" => otoContext = "nil"
  /\ fired' = {}
  /\ IF outcome \in {"open", "decoder"}
     THEN /\ StartFailed(p)
          /\ UNCHANGED <<audioVars, clockVars>>
     ELSE /\ trackStartTime' = now
          /\ pausedDuration' = 0
          /\ pausedAt' = 0
          /\ UNCHANGED startTime
          /\ IF outcome = "sink"
             THEN /\ decoder' = "closed"      \* decoder.Close() at 398, p.decoder still set
                  /\ UNCHANGED <<otoContext, otoPlayer>>
                  /\ StartFailed(p)
             ELSE /\ decoder' = "open"
                  /\ otoContext' = IF otoContext = "nil" THEN "ready" ELSE otoContext
                  /\ otoPlayer' = "idle"
                  /\ pc' = Spawn([pc EXCEPT ![p] = IF loc[p].st > 0 THEN "sp_seek" ELSE "sp_play"])
                  /\ ret' = NoRet
                  /\ UNCHANGED loc
  /\ UNCHANGED <<lifeVars, status, prePausedState, queueVars, flagVars, now, timers, ops>>
  /\ Step(p)
  /\ advance' = IF outcome = "ok" THEN advance
                 ELSE IF p # App /\ (advance.url # NoURL \/ advance.failed)
                 THEN [url |-> NoURL, changes |-> 0, failed |-> TRUE]
                 ELSE NoAdvance
  /\ pauseCycle' = IF outcome \in {"open", "decoder"} THEN pauseCycle ELSE NoCycle

\* the outcomes of decoder.Seek
SeekOutcomes == {"ok", "fail"}

\* seekTo(secs), lines 446-463; the error is only logged by both callers.
\* A decoder that was closed has no format context: Seek dereferences nil.
SeekToEffect(secs, outcome) ==
  IF decoder = "open" /\ outcome = "ok"
  THEN /\ trackStartTime' = now
       /\ pausedDuration' = 0
       /\ startTime' = secs
       /\ UNCHANGED pausedAt
  ELSE UNCHANGED clockVars

\* startPlayback, lines 413-417
StartSeek(p, outcome) ==
  /\ pc[p] = "sp_seek"
  /\ SeekToEffect(loc[p].st, outcome)
  /\ Goto(p, "sp_play")
  /\ Quiet
  /\ UNCHANGED <<lifeVars, status, prePausedState, queueVars, flagVars, audioVars, now, loc, timers, ops>>
  /\ Step(p)
  /\ UNCHANGED advance
  /\ pauseCycle' = IF decoder = "open" /\ outcome = "ok" THEN NoCycle ELSE pauseCycle

\* startPlayback, lines 420-426: start the sink and return nil
StartPlay(p) ==
  /\ pc[p] = "sp_play"
  /\ otoPlayer' = IF otoPlayer # "nil" THEN SinkPlay(otoPlayer) ELSE otoPlayer
  /\ Goto(p, IF p = App THEN "pf_state" ELSE "adv_note")
  /\ Quiet
  /\ UNCHANGED <<lifeVars, status, prePausedState, queueVars, clockVars, flagVars, otoContext, decoder,
                 now, loc, timers, ops>>
  /\ Plain(p)

\* PlayFile, lines 124-127: setState(Playing), InvokeOnTrackChange
PlayFileState ==
  /\ pc[App] = "pf_state"
  /\ status' = [status EXCEPT !.State = Playing]
  /\ fired' = StateCallback(status.State, Playing) \cup {"OnTrackChange"}
  /\ Return("PlayFile", "nil")
  /\ UNCHANGED <<lifeVars, prePausedState, queueVars, clockVars, flagVars, audioVars, now, timers, ops>>
  /\ Plain(App)

\* ---- SetNextFile -----------------------------------------------------------

\* SetNextFile, lines 131-149 (no initialized check)
CallSetNextFile(url) ==
  /\ Begin("SetNextFile")
  /\ LET len1 == IF lenPlaylist > curPlaylistPos + 1 THEN lenPlaylist - 1 ELSE lenPlaylist
     IN IF url = NoURL
        THEN /\ nextURL' = NoURL
             /\ nextMetadata' = NoMeta
             /\ lenPlaylist' = len1
        ELSE /\ nextURL' = url
             /\ nextMetadata' = MetaOf(url)
             /\ lenPlaylist' = len1 + 1
  /\ Return("SetNextFile", "nil")
  /\ fired' = {}
  /\ UNCHANGED <<lifeVars, status, prePausedState, currentURL, currentMetadata, curPlaylistPos,
                 clockVars, flagVars, audioVars, now, timers>>

\* ---- Pause / Continue -------------------------------------------------------

\* Pause with line 183 moved above the state check of line 179: the flag is
\* raised whatever the state is
CallPauseFlagFirst ==
  /\ Begin("Pause")
  /\ fired' = {}
  /\ IF ~initialized
     THEN Return("Pause", "ErrUninitialized") /\ UNCHANGED pauseRequested
     ELSE /\ pauseRequested' = TRUE
          /\ IF status.State # Playing
             THEN Return("Pause", "nil")
             ELSE /\ Goto(App, "pa_sink")
                  /\ ret' = NoRet
                  /\ UNCHANGED loc
  /\ UNCHANGED <<lifeVars, status, prePausedState, queueVars, clockVars, stopRequested,
                 seekTarget, seekRequested, seeking, audioVars, now, timers>>

\* Pause, lines 175-185
CallPause ==
  /\ Begin("Pause")
  /\ fired' = {}
  /\ IF ~initialized
     THEN Return("Pause", "ErrUninitialized") /\ UNCHANGED pauseRequested
     ELSE IF status.State # Playing
     THEN Return("Pause", "nil") /\ UNCHANGED pauseRequested
     ELSE /\ pauseRequested' = TRUE
          /\ Goto(App, "pa_sink")
          /\ ret' = NoRet
          /\ UNCHANGED loc
  /\ UNCHANGED <<lifeVars, status, prePausedState, queueVars, clockVars, stopRequested,
                 seekTarget, seekRequested, seeking, audioVars, now, timers>>

\* Pause, lines 187-192
PauseSink ==
  /\ pc[App] = "pa_sink"
  /\ IF otoPlayer # "nil"
     THEN /\ pausedAt' = Since(trackStartTime) - pausedDuration
          /\ otoPlayer' = SinkPause(otoPlayer)
     ELSE UNCHANGED <<pausedAt, otoPlayer>>
  /\ Goto(App, "pa_pre")
  /\ Quiet
  /\ UNCHANGED <<lifeVars, status, prePausedState, queueVars, startTime, trackStartTime, pausedDuration,
                 flagVars, otoContext, decoder, now, loc, timers, ops>>
  /\ Step(App)
  /\ UNCHANGED advance
  /\ pauseCycle' = IF otoPlayer # "nil" THEN [at |-> now, base |-> pausedDuration] ELSE NoCycle

\* Pause, line 194: p.prePausedState = p.status.State, read without the lock
PausePre ==
  /\ pc[App] = "pa_pre"
  /\ prePausedState' = status.State
  /\ Goto(App, "pa_state")
  /\ Quiet
  /\ UNCHANGED <<lifeVars, status, queueVars, clockVars, flagVars, audioVars, now, loc, timers, ops>>
  /\ Plain(App)

\* Pause, lines 195-197: setState(Paused)
PauseState ==
  /\ pc[App] = "pa_state"
  /\ status' = [status EXCEPT !.State = Paused]
  /\ fired' = StateCallback(status.State, Paused)
  /\ Return("Pause", "nil")
  /\ UNCHANGED <<lifeVars, prePausedState, queueVars, clockVars, flagVars, audioVars, now, timers, ops>>
  /\ Plain(App)

\* Continue, lines 202-212
CallContinue ==
  /\ Begin("Continue")
  /\ fired' = {}
  /\ IF ~initialized
     THEN Return("Continue", "ErrUninitialized") /\ UNCHANGED pauseRequested
     ELSE IF status.State # Paused
     THEN Return("Continue", "nil") /\ UNCHANGED pauseRequested
     ELSE /\ pauseRequested' = FALSE
          /\ Goto(App, "co_sink")
          /\ ret' = NoRet
          /\ UNCHANGED loc
  /\ UNCHANGED <<lifeVars, status, prePausedState, queueVars, clockVars, stopRequested,
                 seekTarget, seekRequested, seeking, audioVars, now, timers>>

\* Continue, lines 214-222
ContinueSink ==
  /\ pc[App] = "co_sink"
  /\ IF pausedAt > 0
     THEN /\ pausedDuration' = pausedDuration + (Since(trackStartTime) - pausedAt)
          /\ pausedAt' = 0
     ELSE UNCHANGED <<pausedDuration, pausedAt>>
  /\ otoPlayer' = IF otoPlayer # "nil" THEN SinkPlay(otoPlayer) ELSE otoPlayer
  /\ Goto(App, "co_state")
  /\ Quiet
  /\ UNCHANGED <<lifeVars, status, prePausedState, queueVars, startTime, trackStartTime,
                 flagVars, otoContext, decoder, now, loc, timers, ops>>
  /\ Step(App)
  /\ UNCHANGED advance
  /\ pauseCycle' = NoCycle

\* Continue, lines 224-226: setState(p.prePausedState)
ContinueState ==
  /\ pc[App] = "co_state"
  /\ status' = [status EXCEPT !.State = prePausedState]
  /\ fired' = StateCallback(status.State, prePausedState)
  /\ Return("Continue", "nil")
  /\ UNCHANGED <<lifeVars, prePausedState, queueVars, clockVars, flagVars, audioVars, now, timers, ops>>
  /\ Plain(App)

\* ---- SeekSeconds and its debounce goroutine ---------------------------------

\* SeekSeconds, lines 231-250; the goroutine started at 242 sleeps until now + Debounce
CallSeekSeconds(secs) ==
  /\ Begin("SeekSeconds")
  /\ fired' = {}
  /\ IF ~initialized
     THEN /\ Return("SeekSeconds", "ErrUninitialized")
          /\ UNCHANGED <<seekTarget, seekRequested, seeking, timers>>
     ELSE /\ seekTarget' = secs
          /\ seekRequested' = TRUE
          /\ seeking' = TRUE
          /\ timers' = Append(timers, now + Debounce)
          /\ Return("SeekSeconds", "nil")
  /\ UNCHANGED <<lifeVars, status, prePausedState, queueVars, clockVars, stopRequested, pauseRequested,
                 audioVars, now>>

RemoveAt(seq, i) == [j \in 1..(Len(seq) - 1) |-> IF j < i THEN seq[j] ELSE seq[j + 1]]

\* SeekSeconds, lines 243-247: after the sleep, seeking = false and InvokeOnSeek
SeekDebounce(i) ==
  /\ i \in 1..Len(timers)
  /\ timers[i] <= now
  /\ timers' = RemoveAt(timers, i)
  /\ seeking' = FALSE
  /\ fired' = {"OnSeek"}
  /\ ret' = NoRet
  /\ UNCHANGED <<lifeVars, status, prePausedState, queueVars, clockVars, stopRequested, pauseRequested,
                 seekTarget, seekRequested, audioVars, now, pc, loc, ops>>
  /\ UNCHANGED <<histVars, sourceVars>>

\* ---- monitorPlayback --------------------------------------------------------

\* monitorPlayback, lines 472-473: the context is done
MonCancel(m) ==
  /\ m \in Monitors /\ pc[m] = "wait"
  /\ ctxCancelled
  /\ Exit(m)
  /\ Quiet
  /\ UNCHANGED <<playerVars, now, timers, ops>>
  /\ Plain(m)

\* monitorPlayback, lines 474-490: a tick; the flags are copied under the read lock
MonTick(m) ==
  /\ m \in Monitors /\ pc[m] = "wait"
  /\ IF stopRequested
     THEN Exit(m)
     ELSE IF pauseRequested /\ status.State = Playing
     THEN UNCHANGED <<pc, loc>>
     ELSE /\ loc' = [loc EXCEPT ![m].pauseReq = pauseRequested, ![m].seekTarget = seekTarget,
                                ![m].state = status.State]
          /\ Goto(m, IF seekRequested THEN "mo_seekclr" ELSE "mo_check")
  /\ Quiet
  /\ UNCHANGED <<playerVars, now, timers, ops>>
  /\ Plain(m)

\* monitorPlayback, lines 494-496
MonSeekClear(m) ==
  /\ m \in Monitors /\ pc[m] = "mo_seekclr"
  /\ seekRequested' = FALSE
  /\ Goto(m, "mo_seek")
  /\ Quiet
  /\ UNCHANGED <<lifeVars, status, prePausedState, queueVars, clockVars, stopRequested, pauseRequested,
                 seekTarget, seeking, audioVars, now, loc, timers, ops>>
  /\ Plain(m)

\* monitorPlayback, lines 498-500: seekTo(seekTarget)
MonSeek(m, outcome) ==
  /\ m \in Monitors /\ pc[m] = "mo_seek"
  /\ SeekToEffect(loc[m].seekTarget, outcome)
  /\ loc' = [loc EXCEPT ![m].err = IF decoder = "open" /\ outcome = "ok" THEN "nil" ELSE "error"]
  /\ Goto(m, "mo_check")
  /\ Quiet
  /\ UNCHANGED <<lifeVars, status, prePausedState, queueVars, flagVars, audioVars, now, timers, ops>>
  /\ Step(m)
  /\ UNCHANGED advance
  /\ pauseCycle' = IF decoder = "open" /\ outcome = "ok" THEN NoCycle ELSE pauseCycle

\* monitorPlayback, lines 504-508: has the track finished?
MonCheck(m) ==
  /\ m \in Monitors /\ pc[m] = "mo_check"
  /\ IF ~IsPlaying(otoPlayer) /\ loc[m].state = Playing /\ ~loc[m].pauseReq
     THEN Goto(m, "mo_next") /\ UNCHANGED loc
     ELSE Goto(m, "wait") /\ loc' = [loc EXCEPT ![m] = NoLoc]
  /\ Quiet
  /\ UNCHANGED <<playerVars, now, timers, ops>>
  /\ Plain(m)

\* monitorPlayback, lines 510-516 and 531-533
MonNext(m) ==
  /\ m \in Monitors /\ pc[m] = "mo_next"
  /\ curPlaylistPos' = curPlaylistPos + 1
  /\ loc' = [loc EXCEPT ![m].nextURL = nextURL, ![m].nextMeta = nextMetadata]
  /\ Goto(m, IF nextURL # NoURL THEN "mo_promote" ELSE "st_req")
  /\ Quiet
  /\ UNCHANGED <<lifeVars, status, prePausedState, currentURL, nextURL, currentMetadata, nextMetadata,
                 lenPlaylist, clockVars, flagVars, audioVars, now, timers, ops>>
  /\ Plain(m)

\* monitorPlayback, lines 517-524: promote the next track, call startPlayback(nextURL, 0)
MonPromote(m) ==
  /\ m \in Monitors /\ pc[m] = "mo_promote"
  /\ currentURL' = loc[m].nextURL
  /\ currentMetadata' = loc[m].nextMeta
  /\ nextURL' = NoURL
  /\ nextMetadata' = NoMeta
  /\ loc' = [loc EXCEPT ![m].url = loc[m].nextURL, ![m].st = 0]
  /\ Goto(m, "sp_stop")
  /\ Quiet
  /\ UNCHANGED <<lifeVars, status, prePausedState, curPlaylistPos, lenPlaylist, clockVars, flagVars,
                 audioVars, now, timers, ops>>
  /\ Plain(m)

\* monitorPlayback, line 530: InvokeOnTrackChange, then the next loop iteration
MonAdvanced(m) ==
  /\ m \in Monitors /\ pc[m] = "adv_note"
  /\ fired' = {"OnTrackChange"}
  /\ ret' = NoRet
  /\ Goto(m, "wait")
  /\ loc' = [loc EXCEPT ![m] = NoLoc]
  /\ UNCHANGED <<playerVars, now, timers, ops>>
  /\ Step(m)
  /\ advance' = IF advance.url # NoURL THEN [advance EXCEPT !.changes = @ + 1] ELSE advance
  /\ UNCHANGED pauseCycle

\* ---- environment ------------------------------------------------------------

\* the wall clock advances, up to the tick limit
TickTo(limit) ==
  /\ now < limit
  /\ now' = now + 1
  /\ Quiet
  /\ UNCHANGED <<playerVars, pc, loc, timers, ops>>
  /\ UNCHANGED <<histVars, sourceVars>>

Tick == TickTo(MaxTime)

\* the sink has played the last sample of its source: IsPlaying() turns false
Exhaust ==
  /\ otoPlayer = "playing"
  /\ otoPlayer' = "drained"
  /\ Quiet
  /\ UNCHANGED <<lifeVars, status, prePausedState, queueVars, clockVars, flagVars, otoContext, decoder,
                 now, pc, loc, timers, ops>>
  /\ advance' = IF /\ status.State = Playing /\ nextURL # NoURL /\ ~pauseRequested
                    /\ pc[App] = "idle" /\ \A m \in Monitors : AtTick(m)
                 THEN [url |-> nextURL, changes |-> 0, failed |-> FALSE]
                 ELSE NoAdvance
  /\ UNCHANGED <<interfered, pauseCycle, sourceVars>>

Next ==
  \/ CallInit
  \/ CallDestroy
  \/ DestroyCancel
  \/ CallStop
  \/ \E m \in Monitors : MonStopRequest(m)
  \/ \E p \in Procs : StopClose(p)
  \/ \E p \in Procs : StopReset(p)
  \/ \E p \in Procs : StopState(p)
  \/ \E url \in PlayURLs, st \in StartTimes : CallPlayFile(url, st)
  \/ \E p \in Procs : StartStop(p)
  \/ \E p \in Procs, o \in OpenOutcomes : StartOpen(p, o)
  \/ \E p \in Procs, o \in SeekOutcomes : StartSeek(p, o)
  \/ \E p \in Procs : StartPlay(p)
  \/ PlayFileState
  \/ \E url \in NextURLs \cup {NoURL} : CallSetNextFile(url)
  \/ CallPause
  \/ PauseSink
  \/ PausePre
  \/ PauseState
  \/ CallContinue
  \/ ContinueSink
  \/ ContinueState
  \/ \E secs \in SeekSecs : CallSeekSeconds(secs)
  \/ \E i \in 1..Len(timers) : SeekDebounce(i)
  \/ \E m \in Monitors : MonCancel(m)
  \/ \E m \in Monitors : MonTick(m)
  \/ \E m \in Monitors : MonSeekClear(m)
  \/ \E m \in Monitors, o \in SeekOutcomes : MonSeek(m, o)
  \/ \E m \in Monitors : MonCheck(m)
  \/ \E m \in Monitors : MonNext(m)
  \/ \E m \in Monitors : MonPromote(m)
  \/ \E m \in Monitors : MonAdvanced(m)
  \/ Tick
  \/ Exhaust

Spec == Init /\ [][Next]_vars

\* ---- an application that plays one track, queues, pauses and stops ------------

InitPlay == InitWith(MaxOpsPlay)

\* PlayFile, called when no track has been given to the player yet
PlayFirst(url, st) == currentURL = NoURL /\ CallPlayFile(url, st)

NextPlay ==
  \/ CallInit
  \/ CallStop
  \/ \E m \in Monitors : MonStopRequest(m)
  \/ \E p \in Procs : StopClose(p)
  \/ \E p \in Procs : StopReset(p)
  \/ \E p \in Procs : StopState(p)
  \/ \E url \in PlayURLs, st \in StartTimes : PlayFirst(url, st)
  \/ \E p \in Procs : StartStop(p)
  \/ \E p \in Procs, o \in OpenOutcomes : StartOpen(p, o)
  \/ \E p \in Procs, o \in SeekOutcomes : StartSeek(p, o)
  \/ \E p \in Procs : StartPlay(p)
  \/ PlayFileState
  \/ \E url \in NextURLs \cup {NoURL} : CallSetNextFile(url)
  \/ CallPause
  \/ PauseSink
  \/ PausePre
  \/ PauseState
  \/ \E m \in Monitors : MonTick(m)
  \/ \E m \in Monitors : MonCheck(m)
  \/ \E m \in Monitors : MonNext(m)
  \/ \E m \in Monitors : MonPromote(m)
  \/ \E m \in Monitors : MonAdvanced(m)
  \/ Tick
  \/ Exhaust

SpecPlay == InitPlay /\ [][NextPlay]_vars

\* ---- an application that plays one track and pauses and resumes it ----------

InitPause == InitWith(MaxOpsPause)


NextPause ==
  \/ CallInit
  \/ \E url \in PlayURLs, st \in StartTimes : PlayFirst(url, st)
  \/ \E p \in Procs : StartStop(p)
  \/ \E p \in Procs, o \in OpenOutcomes : StartOpen(p, o)
  \/ \E p \in Procs, o \in SeekOutcomes : StartSeek(p, o)
  \/ \E p \in Procs : StartPlay(p)
  \/ PlayFileState
  \/ CallPause
  \/ PauseSink
  \/ PausePre
  \/ PauseState
  \/ CallContinue
  \/ ContinueSink
  \/ ContinueState
  \/ \E m \in Monitors : MonTick(m)
  \/ \E m \in Monitors : MonCheck(m)
  \/ \E m \in Monitors : MonNext(m)
  \/ \E m \in Monitors : MonStopRequest(m)
  \/ \E p \in Procs : StopClose(p)
  \/ \E p \in Procs : StopReset(p)
  \/ \E p \in Procs : StopState(p)
  \/ TickTo(MaxTimePause)
  \/ Exhaust

SpecPause == InitPause /\ [][NextPause]_vars

\* ---- an application that plays one track and seeks in it ----------------------

NextSeek ==
  \/ CallInit
  \/ \E url \in PlayURLs, st \in StartTimes : PlayFirst(url, st)
  \/ \E p \in Procs : StartStop(p)
  \/ \E p \in Procs, o \in OpenOutcomes : StartOpen(p, o)
  \/ \E p \in Procs, o \in SeekOutcomes : StartSeek(p, o)
  \/ \E p \in Procs : StartPlay(p)
  \/ PlayFileState
  \/ \E secs \in {1, 2} : CallSeekSeconds(secs)
  \/ \E i \in 1..Len(timers) : SeekDebounce(i)
  \/ \E m \in Monitors : MonTick(m)
  \/ \E m \in Monitors : MonSeekClear(m)
  \/ \E m \in Monitors, o \in SeekOutcomes : MonSeek(m, o)
  \/ \E m \in Monitors : MonCheck(m)
  \/ Tick

SpecSeek == InitWith(MaxOpsSeek) /\ [][NextSeek]_vars

\* ---- HTTPSeeker (httpseeker.go) ---------------------------------------------

SeekStart   == 0      \* io.SeekStart
SeekCurrent == 1      \* io.SeekCurrent
SeekEnd     == 2      \* io.SeekEnd

Whences == {SeekStart, SeekCurrent, SeekEnd, 3}    \* 3: not a whence
Offsets == (0 - 1)..(ResLen + 1)

\* the answers to client.Head: 200 with the length, 200 without a length
\* (ContentLength -1), a non-success status with an empty body, no response
HeadAnswers == {"ok", "unknown", "status", "error"}

\* the answers to the GET of openReader(pos): 206 with the bytes from pos on
\* (to a satisfiable Range header only), 200 with the whole resource, another
\* status, no response
GetAnswers(pos) ==
  IF pos > 0 /\ pos < ResLen THEN {"206", "200", "status", "error"}
  ELSE {"200", "status", "error"}

\* openReader, line 79: the status codes it accepts
OpenReaderOk(get) == get \in {"200", "206"}

\* openReader(pos), lines 57-88: the old body is closed first and stays
\* referenced when the request fails
OpenReader(h, pos, get) ==
  IF OpenReaderOk(get)
  THEN [h EXCEPT !.reader = "open", !.bodyPos = IF get = "206" THEN pos ELSE 0, !.currentPos = pos]
  ELSE IF h.reader = "nil" THEN h ELSE [h EXCEPT !.reader = "closed"]

\* the response bodies open after openReader
ConnsAfter(h, get) ==
  (IF h.reader = "open" THEN conns - 1 ELSE conns) + (IF OpenReaderOk(get) THEN 1 ELSE 0)

\* NewHTTPSeeker, lines 20-49: the HEAD response is used for its length and
\* content type only and its body is closed on return
NewHTTPSeeker(head, get) ==
  /\ ~hs.made
  /\ get \in GetAnswers(0)
  /\ IF head = "error"
     THEN /\ hs' = NoSeeker
          /\ conns' = conns
          /\ hsRet' = [NoHsRet EXCEPT !.op = "New", !.err = "error", !.head = head]
     ELSE LET h0 == [NoSeeker EXCEPT !.contentLength = IF head = "ok" THEN ResLen
                                                       ELSE IF head = "unknown" THEN 0 - 1 ELSE 0]
          IN /\ hs' = IF OpenReaderOk(get) THEN [OpenReader(h0, 0, get) EXCEPT !.made = TRUE] ELSE NoSeeker
             /\ conns' = ConnsAfter(h0, get)
             /\ hsRet' = [NoHsRet EXCEPT !.op = "New", !.head = head,
                                         !.err = IF OpenReaderOk(get) THEN "nil" ELSE "error"]
  /\ UNCHANGED besideHTTP

\* Read, lines 91-99, with len(p) = k: the body delivers the next n bytes of
\* the response, none at its end
HSRead(k) ==
  /\ hs.made
  /\ IF hs.reader = "open"
     THEN \E n \in 0..k :
            /\ n <= ResLen - hs.bodyPos
            /\ (n = 0) <=> (hs.bodyPos = ResLen)
            /\ hs' = [hs EXCEPT !.currentPos = @ + n, !.bodyPos = @ + n]
            /\ hsRet' = [NoHsRet EXCEPT !.op = "Read", !.n = n, !.first = hs.bodyPos,
                                        !.err = IF n = 0 THEN "EOF" ELSE "nil"]
     ELSE /\ hs' = hs
          /\ hsRet' = [NoHsRet EXCEPT !.op = "Read", !.err = "error"]
  /\ UNCHANGED <<conns, besideHTTP>>

\* Seek, lines 102-131
HSSeek(offset, whence, get) ==
  /\ hs.made
  /\ LET target == IF whence = SeekStart THEN offset
                   ELSE IF whence = SeekCurrent THEN hs.currentPos + offset
                   ELSE hs.contentLength + offset
         newPos == IF target > hs.contentLength THEN hs.contentLength ELSE target
     IN IF whence \notin {SeekStart, SeekCurrent, SeekEnd} \/ target < 0
        THEN /\ hs' = hs
             /\ conns' = conns
             /\ get = "200"
             /\ hsRet' = [NoHsRet EXCEPT !.op = "Seek", !.err = "error"]
        ELSE IF newPos # hs.currentPos
        THEN /\ get \in GetAnswers(newPos)
             /\ hs' = OpenReader(hs, newPos, get)
             /\ conns' = ConnsAfter(hs, get)
             /\ hsRet' = [NoHsRet EXCEPT !.op = "Seek", !.target = target, !.pos = hs'.currentPos,
                                         !.err = IF OpenReaderOk(get) THEN "nil" ELSE "error"]
        ELSE /\ hs' = hs
             /\ conns' = conns
             /\ get = "200"
             /\ hsRet' = [NoHsRet EXCEPT !.op = "Seek", !.target = target, !.pos = hs.currentPos, !.err = "nil"]
  /\ UNCHANGED besideHTTP

\* Close, lines 134-139
HSClose ==
  /\ hs.made
  /\ hs' = IF hs.reader = "nil" THEN hs ELSE [hs EXCEPT !.reader = "closed"]
  /\ conns' = IF hs.reader = "open" THEN conns - 1 ELSE conns
  /\ hsRet' = [NoHsRet EXCEPT !.op = "Close", !.err = "nil"]
  /\ UNCHANGED besideHTTP

\* a caller that opens one range-request source and reads, seeks and closes it
InitHTTP == InitWith(0)

NextHTTP ==
  \/ \E head \in HeadAnswers, get \in {"200", "status", "error"} : NewHTTPSeeker(head, get)
  \/ \E k \in 1..MaxRead : HSRead(k)
  \/ \E offset \in Offsets, whence \in Whences, get \in {"206", "200", "status", "error"} :
       HSSeek(offset, whence, get)
  \/ HSClose

SpecHTTP == InitHTTP /\ [][NextHTTP]_vars

\* ---- StreamSeeker (streamseeker.go) ------------------------------------------

\* bufferInBackground, lines 49-54: the origin delivers n bytes and they are
\* appended to the buffer
BufferChunk(n) ==
  /\ wpc = "run"
  /\ ss.len + n <= MaxBuf
  /\ ss' = [ss EXCEPT !.len = @ + n]
  /\ ssRet' = NoSsRet
  /\ UNCHANGED <<wpc, cpc, cloc, besideStream>>

\* bufferInBackground, lines 61-69: the origin ends with io.EOF ("nil") or
\* fails ("fail"); a failure is stored in ss.err
BufferEnd(e) ==
  /\ wpc = "run"
  /\ ss' = [ss EXCEPT !.err = e]
  /\ wpc' = "closing"
  /\ ssRet' = NoSsRet
  /\ UNCHANGED <<cpc, cloc, besideStream>>

\* bufferInBackground, lines 39-44: the deferred ss.done = true
BufferDone ==
  /\ wpc = "closing"
  /\ ss' = [ss EXCEPT !.done = TRUE]
  /\ wpc' = "ended"
  /\ ssRet' = NoSsRet
  /\ UNCHANGED <<cpc, cloc, besideStream>>

\* a call of caller c returns
Returned(c, r) ==
  /\ cpc' = [cpc EXCEPT ![c] = "idle"]
  /\ cloc' = [cloc EXCEPT ![c] = NoCLoc]
  /\ ssRet' = r

\* caller c calls Read(p) with len(p) = k
SSReadCall(c, k) ==
  /\ cpc[c] = "idle"
  /\ cpc' = [cpc EXCEPT ![c] = "rd_snap"]
  /\ cloc' = [cloc EXCEPT ![c] = [NoCLoc EXCEPT !.k = k]]
  /\ ssRet' = NoSsRet
  /\ UNCHANGED <<ss, wpc, besideStream>>

\* Read, lines 76-83 and 106-118: the snapshot under the read lock; with no
\* byte at the cursor the call returns when buffering is done and loops otherwise
SSReadSnap(c) ==
  /\ cpc[c] = "rd_snap"
  /\ LET available == ss.len - ss.pos
     IN IF available > 0
        THEN /\ cloc' = [cloc EXCEPT ![c].available = available, ![c].isDone = ss.done,
                                     ![c].bufErr = ss.err]
             /\ cpc' = [cpc EXCEPT ![c] = "rd_copy"]
             /\ ssRet' = NoSsRet
        ELSE IF ss.done
        THEN Returned(c, [NoSsRet EXCEPT !.op = "Read", !.waited = cloc[c].waited,
                                        !.err = IF ss.err # "nil" THEN ss.err ELSE "EOF"])
        ELSE /\ cloc' = [cloc EXCEPT ![c].waited = TRUE]
             /\ UNCHANGED cpc
             /\ ssRet' = NoSsRet
  /\ UNCHANGED <<ss, wpc, besideStream>>

\* the outcomes of bufBytes[ss.pos:ss.pos+toRead] when it ends beyond
\* len(bufBytes): bytes of the buffer's spare capacity, or a panic when it
\* ends beyond the capacity
CopyOutcomes == {"ok", "panic"}

\* Read, lines 84-103: the copy under the write lock, sized by the snapshot.
\* A panic ends the program.
SSReadCopy(c, outcome) ==
  /\ cpc[c] = "rd_copy"
  /\ LET toRead == IF cloc[c].k > cloc[c].available THEN cloc[c].available ELSE cloc[c].k
         beyond == ss.pos + toRead > ss.len
     IN IF ss.pos >= ss.len
        THEN /\ outcome = "ok"
             /\ UNCHANGED <<ss, wpc>>
             /\ IF cloc[c].isDone
                THEN Returned(c, [NoSsRet EXCEPT !.op = "Read", !.err = "EOF", !.waited = TRUE])
                ELSE /\ cpc' = [cpc EXCEPT ![c] = "rd_snap"]
                     /\ cloc' = [cloc EXCEPT ![c].waited = TRUE]
                     /\ ssRet' = NoSsRet
        ELSE IF outcome = "panic"
        THEN /\ beyond
             /\ cpc' = [d \in Callers |-> "crashed"]
             /\ wpc' = "crashed"
             /\ ssRet' = [NoSsRet EXCEPT !.op = "Read", !.err = "panic"]
             /\ UNCHANGED <<ss, cloc>>
        ELSE /\ ss' = [ss EXCEPT !.pos = @ + toRead]
             /\ Returned(c, [NoSsRet EXCEPT !.op = "Read", !.err = "nil", !.n = toRead,
                                            !.first = ss.pos, !.beyond = beyond,
                                            !.waited = cloc[c].waited])
             /\ UNCHANGED wpc
  /\ UNCHANGED besideStream

SOffsets == (0 - 1)..(MaxBuf + 1)

\* a Seek that clamps a target beyond the frontier also while buffering runs
SSSeekClamps(c, offset, whence) ==
  /\ cpc[c] = "idle"
  /\ LET bufLen == ss.len
         target == IF whence = SeekStart THEN offset
                   ELSE IF whence = SeekCurrent THEN ss.pos + offset
                   ELSE bufLen + offset
         fails == \/ whence \notin {SeekStart, SeekCurrent, SeekEnd}
                  \/ target < 0
         newPos == IF target > bufLen THEN bufLen ELSE target
     IN /\ ss' = IF fails THEN ss ELSE [ss EXCEPT !.pos = newPos]
        /\ ssRet' = [NoSsRet EXCEPT !.op = "Seek", !.err = IF fails THEN "error" ELSE "nil",
                                    !.pos = ss'.pos, !.target = target, !.whence = whence]
  /\ UNCHANGED <<wpc, cpc, cloc, besideStream>>

\* Seek, lines 122-159, under the write lock
SSSeek(c, offset, whence) ==
  /\ cpc[c] = "idle"
  /\ LET bufLen == ss.len
         target == IF whence = SeekStart THEN offset
                   ELSE IF whence = SeekCurrent THEN ss.pos + offset
                   ELSE bufLen + offset
         fails == \/ whence \notin {SeekStart, SeekCurrent, SeekEnd}
                  \/ whence = SeekEnd /\ ~ss.done
                  \/ target < 0
                  \/ target > bufLen /\ ~ss.done
         newPos == IF target > bufLen THEN bufLen ELSE target
     IN /\ ss' = IF fails THEN ss ELSE [ss EXCEPT !.pos = newPos]
        /\ ssRet' = [NoSsRet EXCEPT !.op = "Seek", !.err = IF fails THEN "error" ELSE "nil",
                                    !.pos = ss'.pos, !.target = target, !.whence = whence]
  /\ UNCHANGED <<wpc, cpc, cloc, besideStream>>

\* callers reading and seeking one progressive source while it is buffered
InitStream == InitWith(0)

NextStream ==
  \/ \E n \in 1..MaxBuf : BufferChunk(n)
  \/ \E e \in {"nil", "fail"} : BufferEnd(e)
  \/ BufferDone
  \/ \E c \in Callers, k \in 1..MaxRead : SSReadCall(c, k)
  \/ \E c \in Callers : SSReadSnap(c)
  \/ \E c \in Callers, o \in CopyOutcomes : SSReadCopy(c, o)
  \/ \E c \in Callers, offset \in SOffsets, whence \in Whences : SSSeek(c, offset, whence)

SpecStream == InitStream /\ [][NextStream]_vars

\* the background goroutine and every Read in progress keep being scheduled,
\* and the origin, which holds at most MaxBuf bytes, ends or fails
FairStream ==
  /\ WF_vars(\E e \in {"nil", "fail"} : BufferEnd(e))
  /\ WF_vars(BufferDone)
  /\ \A c \in Callers : WF_vars(SSReadSnap(c))
  /\ \A c \in Callers : WF_vars(\E o \in CopyOutcomes : SSReadCopy(c, o))

SpecStreamFair == InitStream /\ [][NextStream]_vars /\ FairStream

\* ---- FFmpegDecoder: float frame to 16-bit PCM (httpseeker.go) ------------------

\* a float32 sample is q / FloatDen, or not a number
FloatDen == 4
Flt(q) == [nan |-> FALSE, q |-> q]
NaN    == [nan |-> TRUE, q |-> 0]

\* -2.0, -1.0, 0.5, 1.5 and NaN
FloatVals == {Flt(0 - 8), Flt(0 - 4), Flt(2), Flt(6), NaN}

\* int16(NaN) is implementation-dependent: the float to int32 instruction
\* gives the minimum (amd64), 0 (arm64) or the maximum (riscv64), and the
\* low 16 bits of these are 0, 0 and -1
NanOutcomes == {0, 0 - 1}

\* int16(x) of an integer x: the low 16 bits, as a signed number
Int16(x) == ((x + 32768) % 65536) - 32768

\* the conversion to an integer truncates towards zero
Trunc(p, d) == IF p >= 0 THEN p \div d ELSE 0 - ((0 - p) \div d)

\* a conversion that scales without clamping first
ToInt16Wraps(v, nanOut) ==
  IF v.nan THEN nanOut ELSE Int16(Trunc(v.q * Int16Scale, FloatDen))

\* lines 426-432 and 467-473: clamp to [-1.0, 1.0], int16(floatVal * 32767.0)
ToInt16(v, nanOut) ==
  IF v.nan
  THEN nanOut
  ELSE LET floatVal == IF v.q > FloatDen THEN FloatDen
                       ELSE IF v.q < 0 - FloatDen THEN 0 - FloatDen
                       ELSE v.q
       IN Int16(Trunc(floatVal * Int16Scale, FloatDen))

\* lines 419-437: the loop over floatBuf in steps of 4 bytes, from byte i on
RECURSIVE InterleavedLoop(_, _, _, _)
InterleavedLoop(floatBuf, i, output, nanOut) ==
  IF i >= Len(floatBuf) * 4
  THEN output
  ELSE InterleavedLoop(floatBuf, i + 4, Append(output, ToInt16(floatBuf[(i \div 4) + 1], nanOut)),
                       nanOut)

\* a planar conversion that reads the samples in the order they are stored
RECURSIVE PlanarLoopInOrder(_, _, _, _, _, _, _)
PlanarLoopInOrder(tempBuf, nbSamples, numChannels, sampleIdx, ch, output, nanOut) ==
  IF sampleIdx >= nbSamples
  THEN output
  ELSE IF ch >= numChannels
  THEN PlanarLoopInOrder(tempBuf, nbSamples, numChannels, sampleIdx + 1, 0, output, nanOut)
  ELSE LET byteIdx == (sampleIdx * numChannels + ch) * 4
       IN PlanarLoopInOrder(tempBuf, nbSamples, numChannels, sampleIdx, ch + 1,
                            Append(output, ToInt16(tempBuf[(byteIdx \div 4) + 1], nanOut)), nanOut)

\* lines 454-479: the loops over sampleIdx and ch, from (sampleIdx, ch) on;
\* every iteration writes two bytes at outPos and advances it
RECURSIVE PlanarLoop(_, _, _, _, _, _, _)
PlanarLoop(tempBuf, nbSamples, numChannels, sampleIdx, ch, output, nanOut) ==
  IF sampleIdx >= nbSamples
  THEN output
  ELSE IF ch >= numChannels
  THEN PlanarLoop(tempBuf, nbSamples, numChannels, sampleIdx + 1, 0, output, nanOut)
  ELSE LET floatBytesPerChannel == nbSamples * 4
           byteIdx == (ch * floatBytesPerChannel) + (sampleIdx * 4)
       IN PlanarLoop(tempBuf, nbSamples, numChannels, sampleIdx, ch + 1,
                     Append(output, ToInt16(tempBuf[(byteIdx \div 4) + 1], nanOut)), nanOut)

\* convertFloatFrameToInt16, lines 398-483, for a frame of nbSamples samples
\* in numChannels channels whose SamplesCopyToBuffer gives the floats input
ConvertFloatFrameToInt16(fmt, nbSamples, numChannels, input, nanOut) ==
  IF fmt = "flt"
  THEN InterleavedLoop(input, 0, <<>>, nanOut)
  ELSE PlanarLoop(input, nbSamples, numChannels, 0, 0, <<>>, nanOut)

FloatFormats == {"flt", "fltp"}

\* the codec hands a float frame to convertFrameToPCM
ConvertFrame(fmt, nbSamples, numChannels, input, nanOut) ==
  /\ cv = NoConv
  /\ nanOut = 0 \/ \E i \in 1..Len(input) : input[i].nan
  /\ cv' = [fmt |-> fmt, n |-> nbSamples, c |-> numChannels, input |-> input,
            output |-> ConvertFloatFrameToInt16(fmt, nbSamples, numChannels, input, nanOut),
            nanOut |-> nanOut]
  /\ UNCHANGED <<besideDecoder, besideConvert>>

\* the frame is released
NextFrame ==
  /\ cv # NoConv
  /\ cv' = NoConv
  /\ UNCHANGED <<besideDecoder, besideConvert>>

InitConvert == InitWith(0)

NextConvert ==
  \/ \E fmt \in FloatFormats, n \in 1..MaxSamples, c \in 1..MaxChannels, nanOut \in NanOutcomes :
       \E input \in [1..(n * c) -> FloatVals] : ConvertFrame(fmt, n, c, input, nanOut)
  \/ NextFrame

SpecConvert == InitConvert /\ [][NextConvert]_vars

\* ---- FFmpegDecoder: Read and Seek (httpseeker.go) -----------------------------

\* a packet belongs to the audio stream or to another stream of the file
PacketKinds == {"audio", "other"}
Files == UNION {[1..n -> PacketKinds] : n \in 0..MaxPackets}

\* the PCM bytes of the frame decoded from packet f; a byte is known by its
\* place in the decoded file
FramePCM(f) == [j \in 1..FrameBytes |-> (f - 1) * FrameBytes + j]

\* avcodec_send_packet with a packet: refused with AVERROR_EOF once the codec
\* has been sent the flush packet
SendPacket(cc, f) ==
  IF cc.draining
  THEN [cc |-> cc, err |-> "eof"]
  ELSE [cc |-> [cc EXCEPT !.pending = Append(@, f)], err |-> "nil"]

\* avcodec_send_packet(NULL): the codec enters draining mode
SendFlush(cc) == [cc EXCEPT !.draining = TRUE]

\* avcodec_receive_frame: the oldest frame beyond the codec's delay, every
\* frame left once draining, EAGAIN or EOF otherwise
ReceiveFrame(cc) ==
  IF Len(cc.pending) > (IF cc.draining THEN 0 ELSE cc.delay)
  THEN [cc |-> [cc EXCEPT !.pending = Tail(@)], err |-> "nil", frame |-> Head(cc.pending)]
  ELSE [cc |-> cc, err |-> IF cc.draining THEN "eof" ELSE "eagain", frame |-> 0]

\* Read, lines 305-351: read packets until the codec yields a frame; st holds
\* the decoder, the codec and the demuxer
RECURSIVE PacketLoop(_)
PacketLoop(st) ==
  IF st.demux.next > Len(st.demux.file)
  THEN [st |-> [st EXCEPT !.dec.eof = TRUE, !.codec = SendFlush(st.codec)],
        got |-> "none", frame |-> 0]
  ELSE LET i == st.demux.next
           st1 == [st EXCEPT !.demux.next = i + 1]
       IN IF st.demux.file[i] # "audio"
          THEN PacketLoop(st1)
          ELSE LET snd == SendPacket(st1.codec, i)
                   rcv == ReceiveFrame(snd.cc)
               IN IF snd.err # "nil"
                  THEN [st |-> st1, got |-> "error", frame |-> 0]
                  ELSE IF rcv.err = "eagain"
                  THEN PacketLoop([st1 EXCEPT !.codec = snd.cc])
                  ELSE IF rcv.err = "eof"
                  THEN [st |-> [st1 EXCEPT !.codec = snd.cc, !.dec.eof = TRUE],
                        got |-> "none", frame |-> 0]
                  ELSE [st |-> [st1 EXCEPT !.codec = rcv.cc], got |-> "frame", frame |-> rcv.frame]

\* Read, lines 285-366: the loop that fills p (len(p) = k) with out so far
RECURSIVE ReadLoop(_, _, _)
ReadLoop(st, out, k) ==
  IF Len(out) >= k
  THEN [st |-> st, out |-> out, err |-> "nil"]
  ELSE LET left == Len(st.dec.buffer) - st.dec.bufferPos
           copied == IF left > k - Len(out) THEN k - Len(out) ELSE left
           out1 == out \o SubSeq(st.dec.buffer, st.dec.bufferPos + 1, st.dec.bufferPos + copied)
           st1 == [st EXCEPT !.dec.bufferPos = @ + copied]
           short == IF Len(out1) = 0 THEN "EOF" ELSE "nil"
       IN IF Len(out1) >= k
          THEN [st |-> st1, out |-> out1, err |-> "nil"]
          ELSE IF st1.dec.eof
          THEN [st |-> st1, out |-> out1, err |-> short]
          ELSE LET r == PacketLoop(st1)
               IN IF r.got = "error"
                  THEN [st |-> r.st, out |-> out1, err |-> "error"]
                  ELSE IF r.got = "none"
                  THEN [st |-> r.st, out |-> out1, err |-> short]
                  ELSE ReadLoop([r.st EXCEPT !.dec.buffer = FramePCM(r.frame),
                                             !.dec.bufferPos = 0], out1, k)

\* NewFFmpegDecoder, lines 175-272, on a file and a codec that open
DecOpen(file, delay) ==
  /\ ~dec.made
  /\ dec' = [NoDecoder EXCEPT !.made = TRUE]
  /\ codec' = [NoCodec EXCEPT !.delay = delay]
  /\ demux' = [NoDemux EXCEPT !.file = file]
  /\ decRet' = [NoDecRet EXCEPT !.op = "New", !.err = "nil"]
  /\ delivered' = <<>>
  /\ UNCHANGED <<cv, besideDecoder>>

\* Read(p) with len(p) = k, lines 274-367, under d.mu
DecRead(k) ==
  /\ dec.made
  /\ LET r == ReadLoop([dec |-> dec, codec |-> codec, demux |-> demux], <<>>, k)
     IN /\ dec' = r.st.dec
        /\ codec' = r.st.codec
        /\ demux' = r.st.demux
        /\ decRet' = [op |-> "Read", err |-> r.err, out |-> r.out]
        /\ delivered' = delivered \o r.out
  /\ UNCHANGED <<cv, besideDecoder>>

SeekFrameOutcomes == {"ok", "fail"}

\* Seek(offset), lines 528-557, under d.mu; SeekFrame positions the demuxer
\* at packet target or fails
DecSeek(target, outcome) ==
  /\ dec.made
  /\ target <= Len(demux.file) + 1
  /\ IF outcome = "fail"
     THEN /\ decRet' = [NoDecRet EXCEPT !.op = "Seek", !.err = "error"]
          /\ UNCHANGED <<dec, codec, demux, delivered>>
     ELSE /\ demux' = [demux EXCEPT !.next = target, !.start = target]
          /\ codec' = [SendFlush(codec) EXCEPT !.pending = <<>>]
          /\ dec' = [dec EXCEPT !.buffer = <<>>, !.bufferPos = 0, !.eof = FALSE]
          /\ decRet' = [NoDecRet EXCEPT !.op = "Seek", !.err = "nil"]
          /\ delivered' = <<>>
  /\ UNCHANGED <<cv, besideDecoder>>

InitDecoder == InitWith(0)

NextDecoder ==
  \/ \E file \in Files, delay \in 0..MaxDelay : DecOpen(file, delay)
  \/ \E k \in 1..MaxRead : DecRead(k)
  \/ \E target \in 1..(MaxPackets + 1), outcome \in SeekFrameOutcomes : DecSeek(target, outcome)

SpecDecoder == InitDecoder /\ [][NextDecoder]_vars

\* ---- the player's locks: mu and playbackMu (player.go) --------------------------
\* Every function is the sequence of its lock operations, with the blocking I/O
\* ("IO": open, decode, seek, close, wait for the audio context) and the calls on
\* the sink ("Sink": Play, Pause, IsPlaying) it makes in between.

\* startPlayback, lines 339-424: stopPlayback (431-442), opening the source and
\* the decoder, installing them, seekTo (447-462), starting the sink
StartPlaybackLocks ==
  <<"PbLock", "IO", "PbUnlock">> \o <<"IO">> \o <<"PbLock", "IO", "PbUnlock">>
    \o <<"PbLock", "IO", "PbUnlock">> \o <<"PbLock", "Sink", "PbUnlock">>

\* Stop, lines 157-169: the flag, stopPlayback (431-442), the counters, setState (323-326)
StopLocks ==
  <<"Lock", "Unlock">> \o <<"PbLock", "IO", "PbUnlock">> \o <<"Lock", "Unlock">> \o <<"Lock", "Unlock">>

\* Pause keeping mu until the sink is paused
PauseLocksNested == <<"Lock", "PbLock", "Sink", "PbUnlock", "Unlock">> \o <<"Lock", "Unlock">>

\* Pause, lines 179-195: the flag, the sink, setState (323-326)
PauseLocks == <<"Lock", "Unlock", "PbLock", "Sink", "PbUnlock">> \o <<"Lock", "Unlock">>

LockProgram(f) ==
  \* lines 112-124: the fields, startPlayback, setState
  CASE f = "PlayFile" -> <<"Lock", "Unlock">> \o StartPlaybackLocks \o <<"Lock", "Unlock">>
    \* lines 132-133
    [] f = "SetNextFile" -> <<"Lock", "Unlock">>
    [] f = "Stop" -> StopLocks
    [] f = "Pause" -> PauseLocks
    \* lines 206-224: the flag, the sink, setState
    [] f = "Continue" -> <<"Lock", "Unlock", "PbLock", "Sink", "PbUnlock">> \o <<"Lock", "Unlock">>
    \* lines 235-239
    [] f = "SeekSeconds" -> <<"Lock", "Unlock">>
    \* lines 304-316: stopPlayback, then suspending the audio context
    [] f = "Destroy" -> <<"PbLock", "IO", "PbUnlock">> \o <<"PbLock", "IO", "PbUnlock">>
    \* the goroutine of SeekSeconds, lines 244-246
    [] f = "SeekEnd" -> <<"Lock", "Unlock">>
    \* lines 285-286
    [] f = "GetStatus" -> <<"RLock", "RUnlock">>
    \* monitorPlayback: the snapshot of lines 475-481, and the return of line 484 or 489
    [] f = "tickSkip" -> <<"RLock", "RUnlock">>
    \* the snapshot and the look at the sink of lines 504-506
    [] f = "tick" -> <<"RLock", "RUnlock">> \o <<"PbLock", "Sink", "PbUnlock">>
    \* with the seek of lines 493-501
    [] f = "tickSeek" ->
         <<"RLock", "RUnlock">> \o <<"Lock", "Unlock">> \o <<"PbLock", "IO", "PbUnlock">>
           \o <<"PbLock", "Sink", "PbUnlock">>
    \* with the advance of lines 510-524
    [] f = "tickAdvance" ->
         <<"RLock", "RUnlock">> \o <<"PbLock", "Sink", "PbUnlock">>
           \o <<"Lock", "Unlock", "Lock", "Unlock">> \o StartPlaybackLocks
    \* with lines 510-514 and the Stop of line 532
    [] f = "tickStop" ->
         <<"RLock", "RUnlock">> \o <<"PbLock", "Sink", "PbUnlock">> \o <<"Lock", "Unlock">> \o StopLocks

\* the functions every task executes
ProgramsOf(t) ==
  CASE t = "transport" ->
         {"PlayFile", "SetNextFile", "Stop", "Pause", "Continue", "SeekSeconds", "Destroy"}
    [] t = "transport2" -> {"Stop", "Pause"}
    [] t = "monitor" -> {"tickSkip", "tick", "tickSeek", "tickAdvance", "tickStop"}
    [] t = "render" -> {"GetStatus"}
    [] t = "seekend" -> {"SeekEnd"}

\* the lock operation task t executes next
NextInstr(t) == IF lprog[t] = "none" THEN "none" ELSE LockProgram(lprog[t])[lat[t]]

\* the tasks that task t waits for.  sync.RWMutex: a writer first excludes the
\* other writers and announces itself, then waits for the readers to leave; a
\* reader waits for the writer that holds the lock or has announced itself
Blockers(t) ==
  CASE NextInstr(t) = "Lock" /\ muPending # t -> {muPending, muW} \ {"none"}
    [] NextInstr(t) = "Lock" /\ muPending = t -> muR
    [] NextInstr(t) = "RLock" -> {muPending, muW} \ {"none"}
    [] NextInstr(t) = "PbLock" -> {pbOwner} \ {"none"}
    [] OTHER -> {}

\* task t calls function f
LockCall(t, f) ==
  /\ lprog[t] = "none"
  /\ f \in ProgramsOf(t)
  /\ lprog' = [lprog EXCEPT ![t] = f]
  /\ lat' = [lat EXCEPT ![t] = 1]
  /\ UNCHANGED <<muW, muPending, muR, pbOwner, playerSide, httpVars, streamVars, decVars>>

\* p.mu.Lock(), first half: the writer announces itself
MuLockAnnounce(t) ==
  /\ NextInstr(t) = "Lock" /\ muPending # t
  /\ Blockers(t) = {}
  /\ muPending' = t
  /\ UNCHANGED <<lprog, lat, muW, muR, pbOwner, playerSide, httpVars, streamVars, decVars>>

\* task t executes its next operation, the second half of p.mu.Lock() included;
\* after the last one the function returns
LockStep(t) ==
  /\ lprog[t] # "none"
  /\ ~(NextInstr(t) = "Lock" /\ muPending # t)
  /\ Blockers(t) = {}
  /\ muPending' = IF NextInstr(t) = "Lock" THEN "none" ELSE muPending
  /\ muW' = CASE NextInstr(t) = "Lock" -> t
              [] NextInstr(t) = "Unlock" -> "none"
              [] OTHER -> muW
  /\ muR' = CASE NextInstr(t) = "RLock" -> muR \cup {t}
              [] NextInstr(t) = "RUnlock" -> muR \ {t}
              [] OTHER -> muR
  /\ pbOwner' = CASE NextInstr(t) = "PbLock" -> t
                  [] NextInstr(t) = "PbUnlock" -> "none"
                  [] OTHER -> pbOwner
  /\ IF lat[t] = Len(LockProgram(lprog[t]))
     THEN lprog' = [lprog EXCEPT ![t] = "none"] /\ lat' = [lat EXCEPT ![t] = 1]
     ELSE lat' = [lat EXCEPT ![t] = lat[t] + 1] /\ UNCHANGED lprog
  /\ UNCHANGED <<playerSide, httpVars, streamVars, decVars>>

NextLocks ==
  \/ \E t \in Tasks, f \in UNION {ProgramsOf(u) : u \in Tasks} : LockCall(t, f)
  \/ \E t \in Tasks : MuLockAnnounce(t)
  \/ \E t \in Tasks : LockStep(t)

SpecLocks == InitWith(0) /\ [][NextLocks]_vars

\* C1: once the sink has run out of the current track while Playing with a next
\* track queued, and the application issues no call, the player stays Playing,
\* at most one track-change notification fires for the advance, and when it has
\* fired the next track is current with its decoder open and its sink playing.
C1_GaplessAdvance ==
  advance.url # NoURL =>
    /\ status.State = Playing
    /\ advance.changes <= 1
    /\ advance.changes = 1 =>
         (currentURL = advance.url /\ decoder = "open" /\ otoPlayer = "playing")

\* C2: the monitor never takes a sink that Pause has suspended for the natural
\* completion of the track.
C2_PauseIsNotCompletion ==
  [][\A m \in Monitors : (pc[m] = "mo_check" /\ pc'[m] = "mo_next") => otoPlayer # "paused"]_vars

\* C3: when PlayFile returns an error, the state, the current track, the start
\* offset and the playlist counters are what they were when it was called, and
\* no sink is playing.
C3_FailedPlayKeepsState ==
  [][(ret'.op = "PlayFile" /\ ret'.err = "error") =>
       /\ status'.State = loc[App].pre.state
       /\ currentURL' = loc[App].pre.url
       /\ currentMetadata' = loc[App].pre.meta
       /\ startTime' = loc[App].pre.st
       /\ lenPlaylist' = loc[App].pre.len
       /\ curPlaylistPos' = loc[App].pre.pos
       /\ otoPlayer' # "playing"]_vars

\* C4: when startPlayback returns an error, the player does not reference a
\* closed decoder, and with no other goroutine at work its decoder and sink
\* references are empty.
C4_NoPartialAcquisition ==
  [][\A p \in Procs : (pc[p] = "sp_open" /\ pc'[p] \in {"idle", "st_req"}) =>
       /\ decoder' # "closed"
       /\ (\A q \in Procs \ {p} : pc[q] \in {"idle", "dead", "wait"}) =>
            (decoder' = "nil" /\ otoPlayer' = "nil")]_vars

\* C5: a transport call on a player that is not initialized returns
\* ErrUninitialized and changes no field of the player.
C5_UninitializedCallsFail ==
  [][(~initialized /\ ops' # ops /\ ret'.op \in {"PlayFile", "SetNextFile", "Pause", "Continue", "SeekSeconds", "Stop"}) =>
       (ret'.err = "ErrUninitialized" /\ UNCHANGED playerVars)]_vars

C7_StopClearsQueue ==
  [][(ret'.op = "Stop" /\ ret'.err = "nil") => (currentURL' = NoURL /\ nextURL' = NoURL)]_vars

\* C8: when PlayFile returns nil, the queue is that track alone: length 1,
\* position 0 and no next track pending.
C8_PlayFileClearsQueue ==
  [][(ret'.op = "PlayFile" /\ ret'.err = "nil") =>
       (lenPlaylist' = 1 /\ curPlaylistPos' = 0 /\ nextURL' = NoURL)]_vars

\* C9: a Continue that ends a pause taken at a positive position, with no seek
\* and no new track since the sink was paused, leaves the accumulated paused
\* duration at its value before the Pause plus the length of the pause.
C9_ResumeAccumulatesPause ==
  [][(pc[App] = "co_sink" /\ pc'[App] = "co_state" /\ pauseCycle.at >= 0 /\ pausedAt > 0) =>
       pausedDuration' = pauseCycle.base + (now - pauseCycle.at)]_vars

\* C10: the change from Playing to Paused leaves the position and the duration
\* that GetStatus reports as they were.
C10_ElapsedFreezesWhilePaused ==
  [][(status.State = Playing /\ status'.State = Paused) =>
       (GetStatus'.TimePos = GetStatus.TimePos /\ GetStatus'.Duration = GetStatus.Duration)]_vars

\* C11: on an initialized player, Pause called while the state is not Playing
\* and Continue called while the state is not Paused return nil, change no
\* field of the player (state, pausedAt, pausedDuration, pauseRequested, sink)
\* and invoke no callback.
C11_PauseResumeIdempotent ==
  [][(/\ initialized
      /\ ops' # ops
      /\ \/ ret'.op = "Pause" /\ status.State # Playing
         \/ ret'.op = "Continue" /\ status.State # Paused) =>
       (ret'.err = "nil" /\ UNCHANGED playerVars /\ fired' = {})]_vars

\* a Pause issued while Paused has returned: the sink is still suspended and the
\* pause is still requested
C11_Witness ==
  /\ ret = [op |-> "Pause", err |-> "nil"]
  /\ fired = {}
  /\ initialized
  /\ status.State = Paused
  /\ pauseRequested
  /\ otoPlayer = "paused"

\* C12: while the state is Playing and the debounce window of some seek
\* request has not elapsed yet, IsSeeking() is true.
C12_SeekingWindow ==
  (status.State = Playing /\ \E i \in 1..Len(timers) : timers[i] > now) => IsSeeking

\* C13: when the monitor has advanced to the next track and announces it, with
\* no seek requested on the new track, the position GetStatus reports is the
\* time played since startPlayback restarted the clock for that track.
C13_AdvanceStartsAtZero ==
  [][\A m \in Monitors :
       (pc[m] = "adv_note" /\ pc'[m] = "wait" /\ status'.State = Playing /\ decoder' # "nil") =>
         GetStatus'.TimePos = (now' - trackStartTime') - pausedDuration']_vars

\* C14: when a monitor whose startPlayback for the promoted track failed has
\* finished its Stop, and the application issued no call since the track ran
\* out, the state is Stopped, no decoder and no sink player are referenced and
\* no goroutine is starting a track.
C14_FailedAdvanceStops ==
  [][\A m \in Monitors :
       (advance.failed /\ pc[m] = "st_state" /\ pc'[m] = "dead" /\ loc[m].url # NoURL) =>
         /\ status'.State = Stopped
         /\ decoder' = "nil"
         /\ otoPlayer' = "nil"
         /\ \A q \in Monitors : pc'[q] \notin {"sp_stop", "sp_open", "sp_seek", "sp_play", "adv_note"}]_vars

\* C15: when Destroy returns, the state is Stopped, no decoder and no sink
\* player are referenced and the player is not initialized.
C15_DestroyResetsStatus ==
  [][ret'.op = "Destroy" =>
       (status'.State = Stopped /\ decoder' = "nil" /\ otoPlayer' = "nil" /\ ~initialized')]_vars

\* C16: once Destroy has cancelled the context and returned, and until the
\* application issues its next call, no step changes the state, the current
\* track, the playlist position, the decoder or the sink player, and no state
\* or track-change callback is invoked.
C16_CancelStopsMonitors ==
  [][(ctxCancelled /\ ~initialized /\ ops' = ops) =>
       /\ status' = status
       /\ currentURL' = currentURL
       /\ curPlaylistPos' = curPlaylistPos
       /\ decoder' = decoder
       /\ otoPlayer' = otoPlayer
       /\ fired' \cap ({"OnPlaying", "OnPaused", "OnStopped"} \cup {"OnTrackChange"}) = {}]_vars

\* C17: a state callback is invoked in a step exactly if that step changes the
\* state to the callback's state; OnTrackChange is invoked exactly in the steps
\* in which PlayFile returns nil or a monitor completes an advance; and one
\* automatic advance invokes OnTrackChange at most once.
C17_NotifyOncePerTransition ==
  [][/\ ("OnPlaying" \in fired') <=> (status.State # Playing /\ status'.State = Playing)
     /\ ("OnPaused" \in fired') <=> (status.State # Paused /\ status'.State = Paused)
     /\ ("OnStopped" \in fired') <=> (status.State # Stopped /\ status'.State = Stopped)
     /\ ("OnTrackChange" \in fired') <=>
          \/ ret' = [op |-> "PlayFile", err |-> "nil"]
          \/ \E m \in Monitors : pc[m] = "adv_note" /\ pc'[m] = "wait"
     /\ advance'.changes <= 1]_vars

\* C18: with a known content length, a successful Seek returns the seeker's
\* position, which lies in 0..contentLength, and the Read that follows it
\* delivers the resource's bytes from that position on.
C18_SeekThenRead ==
  [][hs.contentLength >= 0 =>
       /\ (hsRet'.op = "Seek" /\ hsRet'.err = "nil") =>
            (hsRet'.pos = hs'.currentPos /\ 0 <= hsRet'.pos /\ hsRet'.pos <= hs'.contentLength)
       /\ (hsRet.op = "Seek" /\ hsRet.err = "nil" /\ hsRet'.op = "Read" /\ hsRet'.n > 0) =>
            hsRet'.first = hsRet.pos]_vars

\* C19: when the HEAD request fails or is answered with a non-success status,
\* NewHTTPSeeker returns an error and no seeker, and no response body is open.
C19_ProbeFailureFailsOpen ==
  [][(hsRet'.op = "New" /\ hsRet'.head \in {"error", "status"}) =>
       (hsRet'.err # "nil" /\ ~hs'.made /\ conns' = 0)]_vars

\* C20: with an unknown (negative) content length, a successful Seek to a
\* non-negative target returns the target and leaves the position at it.
C20_UnknownLengthUnbounded ==
  [][(hsRet'.op = "Seek" /\ hsRet'.err = "nil" /\ hs.contentLength < 0 /\ hsRet'.target >= 0) =>
       (hsRet'.pos = hsRet'.target /\ hs'.currentPos = hsRet'.target /\ hs'.currentPos >= 0)]_vars


\* ---- StreamSeeker claims -----------------------------------------------------

\* C21: while background buffering is still in progress, a Seek whose target
\* lies beyond the buffered frontier returns an error (in one step, without
\* waiting for the buffer to grow) and leaves the read cursor unchanged.
C21_SeekBeyondFrontierFails ==
  [][(ssRet'.op = "Seek" /\ ssRet'.whence \in {SeekStart, SeekCurrent, SeekEnd} /\ ~ss.done
        /\ ssRet'.target > ss.len)
       => (ssRet'.err = "error" /\ ss'.pos = ss.pos /\ ss'.len = ss.len)]_vars

\* a Seek beyond a non-empty frontier failed while buffering was in progress,
\* with the cursor inside the buffer
C21_Witness ==
  /\ ssRet.op = "Seek" /\ ssRet.err = "error" /\ ssRet.whence \in {SeekStart, SeekCurrent, SeekEnd}
  /\ ssRet.target > ss.len /\ ~ss.done /\ wpc = "run"
  /\ ss.len > 0 /\ ss.pos > 0 /\ ss.pos < ss.len

\* C22: every out-of-range Seek, with a negative target or with a target
\* beyond the highest buffered offset, whether buffering is in progress or has
\* finished, fails with an error and leaves the cursor unchanged.
C22_OutOfRangeSeekFails ==
  [][(ssRet'.op = "Seek" /\ ssRet'.whence \in {SeekStart, SeekCurrent, SeekEnd}
        /\ (ssRet'.target < 0 \/ ssRet'.target > ss.len))
       => (ssRet'.err = "error" /\ ss'.pos = ss.pos)]_vars

\* C23: a Read in progress eventually returns when the background goroutine
\* and the reading goroutines keep being scheduled and the origin ends or
\* fails; the call ends by returning bytes, end-of-data or the terminal
\* error, and it returns end-of-data only after the background goroutine has
\* set done.
C23_ReadTerminates ==
  /\ \A c \in Callers : (cpc[c] \in {"rd_snap", "rd_copy"}) ~> (cpc[c] = "idle")
  /\ [][/\ ssRet'.op = "Read" => ssRet'.err \in {"nil", "EOF", "fail"}
        /\ (ssRet'.op = "Read" /\ ssRet'.err = "EOF") => ss.done]_vars

\* C24: the read cursor stays within 0..len(buffer), and a Read that returns
\* bytes returns buffered bytes only, never bytes beyond the frontier.
C24_ConsistentPrefix ==
  [][/\ 0 <= ss'.pos /\ ss'.pos <= ss'.len
     /\ (ssRet'.op = "Read" /\ ssRet'.n > 0)
          => (~ssRet'.beyond /\ ssRet'.first + ssRet'.n <= ss.len)]_vars

\* C25: after buffering ended with an error other than end-of-data, a Read
\* that returns zero bytes returns that error, never clean end-of-data.
C25_TerminalErrorSurfaced ==
  [][(ssRet'.op = "Read" /\ ssRet'.n = 0 /\ ssRet'.err # "panic" /\ ss.err # "nil")
       => ssRet'.err = ss.err]_vars

\* ---- FFmpegDecoder claims ----------------------------------------------------

\* the float that the claim pairs with output index s*C + c of a planar frame
PlanarInput(s, c) == cv.input[((c * cv.n * 4 + s * 4) \div 4) + 1]

\* C27: for a planar float frame of N samples in C channels, the output has
\* N*C samples, the sample at index s*C + c is the conversion of the float at
\* byte offset c*N*4 + s*4, and no two outputs come from the same input.
C27_PlanarToInterleaved ==
  cv.fmt = "fltp" =>
    /\ Len(cv.output) = cv.n * cv.c
    /\ \A s \in 0..(cv.n - 1), c \in 0..(cv.c - 1) :
         cv.output[s * cv.c + c + 1] = ToInt16(PlanarInput(s, c), cv.nanOut)
    /\ Cardinality({c * cv.n * 4 + s * 4 : s \in 0..(cv.n - 1), c \in 0..(cv.c - 1)})
         = cv.n * cv.c

\* a planar frame of two samples in two channels with four different values
\* was converted
C27_Witness ==
  /\ cv.fmt = "fltp" /\ cv.n = 2 /\ cv.c = 2
  /\ cv.input = <<Flt(0 - 8), Flt(0 - 4), Flt(2), Flt(6)>>
  /\ cv.output = <<0 - Int16Scale, 16383, 0 - Int16Scale, Int16Scale>>

\* the float an output index comes from, for either format
InputOf(k) ==
  IF cv.fmt = "flt" THEN cv.input[k]
  ELSE PlanarInput((k - 1) \div cv.c, (k - 1) % cv.c)

\* C28: in both float paths every output sample lies in -32767..32767, an
\* input above 1.0 gives 32767 and an input below -1.0 gives -32767.
C28_Clamping ==
  cv.fmt \in FloatFormats =>
    \A k \in 1..Len(cv.output) :
      /\ 0 - Int16Scale <= cv.output[k] /\ cv.output[k] <= Int16Scale
      /\ (~InputOf(k).nan /\ InputOf(k).q > FloatDen) => cv.output[k] = Int16Scale
      /\ (~InputOf(k).nan /\ InputOf(k).q < 0 - FloatDen) => cv.output[k] = 0 - Int16Scale

\* an interleaved frame holding 1.5 and -2.0 was converted
C28_Witness ==
  /\ cv.fmt = "flt" /\ cv.n = 1 /\ cv.c = 2
  /\ cv.input = <<Flt(6), Flt(0 - 8)>>
  /\ cv.output = <<Int16Scale, 0 - Int16Scale>>

\* C29: for a planar float frame the output at index s*C + c equals
\* round(clamp(value[c][s], -1, 1) * 32767).
C29_RoundedValue ==
  LET \* round to the nearest integer, halves away from zero
      Round(p, d) == IF p >= 0 THEN (2 * p + d) \div (2 * d) ELSE 0 - ((2 * (0 - p) + d) \div (2 * d))
      Clamp(q) == IF q > FloatDen THEN FloatDen ELSE IF q < 0 - FloatDen THEN 0 - FloatDen ELSE q
  IN
  cv.fmt = "fltp" =>
    \A s \in 0..(cv.n - 1), c \in 0..(cv.c - 1) :
      ~PlanarInput(s, c).nan =>
        cv.output[s * cv.c + c + 1] = Round(Clamp(PlanarInput(s, c).q) * Int16Scale, FloatDen)

\* the PCM of the audio packets from packet i to the end of the file
RECURSIVE PCMFrom(_)
PCMFrom(i) ==
  IF i > Len(demux.file) THEN <<>>
  ELSE (IF demux.file[i] = "audio" THEN FramePCM(i) ELSE <<>>) \o PCMFrom(i + 1)

\* C26: when Read reports end-of-data, the source is exhausted, the codec
\* holds no frame, and the bytes delivered since the decoder was opened or
\* sought are the PCM of every audio packet from there to the end: no frame
\* was dropped, including those the codec releases only when flushed.
C26_EofAfterFlushDrained ==
  [][(decRet'.op = "Read" /\ decRet'.err = "EOF")
       => /\ demux'.next > Len(demux'.file)
          /\ codec'.pending = <<>>
          /\ delivered' = PCMFrom(demux.start)]_vars

\* C30: a successful Seek leaves the frame buffer empty with cursor 0 and eof
\* clear; the Read that follows it returns no byte decoded before the seek
\* and does not fail, and it returns data when the sought position has an
\* audio packet that the codec does not hold back.
C30_SeekResetsBuffer ==
  [][/\ (decRet'.op = "Seek" /\ decRet'.err = "nil")
        => (dec'.buffer = <<>> /\ dec'.bufferPos = 0 /\ ~dec'.eof)
     /\ (decRet.op = "Seek" /\ decRet.err = "nil" /\ decRet'.op = "Read")
        => /\ \A j \in 1..Len(decRet'.out) : decRet'.out[j] > (demux.start - 1) * FrameBytes
           /\ decRet'.err # "error"
           /\ (codec.delay = 0 /\ PCMFrom(demux.start) # <<>>) => Len(decRet'.out) > 0]_vars

\* ---- player claims, continued ------------------------------------------------

\* C31: at any time at most one monitorPlayback goroutine is alive, across
\* Play calls, automatic advances and Stops.
C31_OneMonitor == Cardinality({m \in Monitors : pc[m] # "dead"}) <= 1

\* C32: when the monitor has positioned the decoder of the playing track and
\* no seek request is pending, the decoder is at the most recently requested
\* target: a request that arrives while the monitor handles an earlier one is
\* not lost.
C32_NoSeekLost ==
  [][\A m \in Monitors :
       (pc[m] = "mo_seek" /\ pc'[m] = "mo_check" /\ loc[m].state = Playing
          /\ loc'[m].err = "nil" /\ ~seekRequested')
         => startTime' = seekTarget']_vars

\* C33: when the seek the monitor executed while Playing has failed, the
\* iteration does not return to waiting for the next tick with playback going
\* on: the player is Stopped with decoder and sink torn down.
C33_FailedSeekStops ==
  [][\A m \in Monitors :
       (pc[m] = "mo_check" /\ loc[m].err = "error" /\ loc[m].state = Playing
          /\ pc[App] = "idle" /\ pc'[m] = "wait")
         => (status'.State = Stopped /\ decoder' = "nil" /\ otoPlayer' = "nil")]_vars

\* C34: while the state is Paused, the steps of a monitor iteration whose tick
\* observed Paused change no player field: no decoder seek, no re-anchoring
\* of the clock, and a pending seek request stays pending.
C34_PausedTickIsNoOp ==
  [][\A m \in Monitors :
       (status.State = Paused /\ loc[m].state = Paused /\ pc[m] \in {"mo_seekclr", "mo_seek", "mo_check"}
          /\ pc'[m] # pc[m])
         => UNCHANGED playerVars]_vars

\* C40: when PlayFile has started a track, no seek request recorded before
\* the call is pending.
C40_NoSeekCarriedOver ==
  [][ret' = [op |-> "PlayFile", err |-> "nil"] => ~seekRequested']_vars

\* C36: when startPlayback installs a new decoder and sink player, the ones
\* they replace have been closed: no open decoder and no sink player is
\* referenced at that moment, so none is left open and unreferenced.
C36_ReplacedIsClosed ==
  [][\A p \in Procs :
       (pc[p] = "sp_open" /\ pc'[p] \in {"sp_seek", "sp_play"})
         => (decoder # "open" /\ otoPlayer = "nil")]_vars

\* C37: whenever the player reports Stopped and no transport call or monitor
\* step is in progress, no decoder is open and there is no sink player.
C37_StoppedHasNoAudio ==
  (status.State = Stopped /\ pc[App] = "idle" /\ \A m \in Monitors : AtTick(m))
    => (decoder # "open" /\ otoPlayer = "nil")

\* C38: whenever the state is Paused the recorded pre-pause state is Playing,
\* so that Continue leaves the state Playing.
C38_ResumeReturnsToPlaying ==
  status.State = Paused => prePausedState = Playing

\* C39: whenever a track is current (Playing or Paused) and no call is in
\* progress, the playlist length is the position plus one, plus one more if a
\* next track is pending.
C39_CountersConsistent ==
  (status.State \in {Playing, Paused} /\ pc[App] = "idle" /\ \A m \in Monitors : AtTick(m))
    => lenPlaylist = curPlaylistPos + 1 + (IF nextURL # NoURL THEN 1 ELSE 0)

\* C35: no task holds mu while it acquires playbackMu or performs blocking I/O,
\* no task acquires mu under playbackMu while another acquires playbackMu under
\* mu, and no set of tasks is deadlocked: each waiting, and waiting for tasks of
\* the set only.
C35_LockDiscipline ==
  LET HoldsMu(t) == muW = t \/ t \in muR
  IN /\ \A t \in Tasks : HoldsMu(t) => NextInstr(t) \notin {"PbLock", "IO"}
     /\ ~ \E t, u \in Tasks : /\ HoldsMu(t) /\ NextInstr(t) = "PbLock"
                              /\ pbOwner = u /\ NextInstr(u) \in {"Lock", "RLock"}
     /\ ~ \E S \in SUBSET Tasks :
            S # {} /\ \A t \in S : Blockers(t) # {} /\ Blockers(t) \subseteq S

\* one task performs blocking I/O under playbackMu while another holds mu for
\* writing and a third waits for mu
C35_Witness ==
  \E t, u, v \in Tasks :
    /\ pbOwner = t /\ NextInstr(t) = "IO"
    /\ muW = u /\ u # t
    /\ NextInstr(v) = "RLock" /\ Blockers(v) # {}

====
